---------------------------- MODULE Spec2Model ----------------------------
(***************************************************************************)
(* Model of ml-models/universal_train.py: detect_compute_environment and   *)
(* train_model, one action per statement that changes state.  The          *)
(* third-party calls (platform, tensorflow, torch, mlflow, scikit-learn)   *)
(* are modelled by their documented behaviour at the call site: a probe    *)
(* either returns or raises, a tracking call either succeeds or raises,    *)
(* and the seeded numeric routines are deterministic functions of their    *)
(* arguments and of the seed.                                              *)
(***************************************************************************)
EXTENDS Integers, Sequences, FiniteSets, TLC

(***************************************************************************)
(* Bounds of the model.                                                    *)
(***************************************************************************)
\* how many times the caller invokes train_model in one process
MaxCalls == 2
\* seeds 0..MaxEntropy stand for the OS entropy a random_state of None draws
MaxEntropy == 1

(***************************************************************************)
(* Program constants (the literals of train_model).                        *)
(***************************************************************************)
N_SAMPLES == 1000
N_CLASSES == 2
RANDOM_STATE == 42
\* test_size = 0.2, kept as the exact ratio TestSizeNum / TestSizeDen
TestSizeNum == 2
TestSizeDen == 10
N_ESTIMATORS == 100
MAX_DEPTH == 10

DEFAULT_TRACKING_URI == "http://localhost:5000"
EXPERIMENT_NAME == "universal-ml-experiment"
ARTIFACT_PATH == "random_forest_model"
REGISTERED_MODEL_NAME == "universal-ml-model"

(***************************************************************************)
(* The host: what the probes of detect_compute_environment and os.getenv   *)
(* find.  A library is                                                     *)
(*   absent       its import raises ImportError                            *)
(*   broken       its import raises another exception                      *)
(*   gpu / cpu    it imports and the GPU query answers non-empty / empty   *)
(*   query_import it imports and the GPU query raises ImportError          *)
(*   query_error  it imports and the GPU query raises another exception    *)
(***************************************************************************)
LibStates == {"absent", "broken", "gpu", "cpu", "query_import", "query_error"}

Systems ==
    { [platform |-> "Linux", architecture |-> "x86_64", python_version |-> "3.10.12"],
      [platform |-> "Darwin", architecture |-> "arm64", python_version |-> "3.11.4"] }

\* MLFLOW_TRACKING_URI: <<>> when unset, <<uri>> when set
UriEnvs == { <<>>, <<"http://mlflow:5000">> }

Hosts == [tf : LibStates, torch : LibStates, system : Systems, uriEnv : UriEnvs]

\* "import <lib>": "ok" or the class of the exception raised
ImportResult(lib) ==
    CASE lib = "absent" -> "ImportError"
      [] lib = "broken" -> "OtherError"
      [] OTHER -> "ok"

\* tf.config.list_physical_devices('GPU') / torch.cuda.is_available() of an
\* imported library: "gpu", "none", or the class of the exception raised
QueryResult(lib) ==
    CASE lib = "gpu" -> "gpu"
      [] lib = "cpu" -> "none"
      [] lib = "query_import" -> "ImportError"
      [] OTHER -> "OtherError"

\* the "except ImportError" clauses
ExceptImportError(e) == e = "ImportError"

\* the truth test of "if tf.config.list_physical_devices('GPU')" and of
\* "if torch.cuda.is_available()"
GpuFound(q) == q = "gpu"

InitialEnvInfoWrongDefault(sys) ==
    [platform |-> sys.platform, architecture |-> sys.architecture,
     python_version |-> sys.python_version,
     gpu_available |-> TRUE, gpu_type |-> "None"]

\* env_info as built before probing
InitialEnvInfo(sys) ==
    [platform |-> sys.platform, architecture |-> sys.architecture,
     python_version |-> sys.python_version,
     gpu_available |-> FALSE, gpu_type |-> "None"]

\* env_info['gpu_available'] = True; env_info['gpu_type'] = 'CUDA'
MarkGpu(e) == [e EXCEPT !.gpu_available = TRUE, !.gpu_type = "CUDA"]

(***************************************************************************)
(* Seeded library routines.                                                *)
(***************************************************************************)
EntropySeeds == 0..MaxEntropy

\* the seeds a random_state argument can yield: <<s>> is an int seed,
\* <<>> is random_state=None (fresh entropy on every call)
SeedsOf(rs) == IF rs = <<>> THEN EntropySeeds ELSE {rs[1]}


\* a multiplier coprime to n (n < 1001), for the seeded permutations
Stride(n) == IF n % 7 # 0 THEN 7 ELSE IF n % 11 # 0 THEN 11 ELSE 13

\* the seeded shuffle of positions 1..n: a bijection on 1..n fixed by s
Shuffle(p, n, s) == (((p - 1) * Stride(n) + s) % n) + 1

\* make_classification draws the sample at (pre-shuffle) position p from the
\* cluster of class BaseLabel(p); flip_y (default 0.01) then replaces the
\* label of about one sample in a hundred by a random class
BaseLabel(p) == (p - 1) % N_CLASSES
Flipped(p, s) == ((p * 37 + s * 11) % 100) = 0
DrawnLabel(p, s) == IF Flipped(p, s) THEN (p + s) % N_CLASSES ELSE BaseLabel(p)
\* the feature row: the class signal of the cluster and a noise level 0..9
FeatureRow(p, s) == BaseLabel(p) * 10 + ((p * 17 + s * 5) % 10)
Signal(x) == x \div 10
Noise(x) == x % 10

\* make_classification(n_samples=n, ..., random_state=s): (X, y), shuffled
make_classification(n, s) ==
    [X |-> [i \in 1..n |-> FeatureRow(Shuffle(i, n, s), s)],
     y |-> [i \in 1..n |-> DrawnLabel(Shuffle(i, n, s), s)]]

Classes == 0..(N_CLASSES - 1)

CeilDiv(a, b) == (a + b - 1) \div b

\* ceil(test_size * n_samples) with test_size = num/den
NTest(n, num, den) == CeilDiv(n * num, den)
\* train_size is None: n_train = n_samples - n_test
NTrain(n, num, den) == n - NTest(n, num, den)

\* _approximate_mode(class_counts, n_draws): the floor of each class's share,
\* then one more for the classes with the largest remainders (ties by seed)
ApproximateMode(counts, total, draws, s) ==
    LET fl(c) == (counts[c] * draws) \div total
        rem(c) == (counts[c] * draws) % total
        floored == [c \in Classes |-> fl(c)]
        RECURSIVE Sum(_)
        Sum(S) == IF S = {} THEN 0
                  ELSE LET c == CHOOSE c \in S : TRUE IN floored[c] + Sum(S \ {c})
        need == draws - Sum(Classes)
        tie(c) == (c + s) % N_CLASSES
        before(d, c) == rem(d) > rem(c) \/ (rem(d) = rem(c) /\ tie(d) < tie(c))
        rank(c) == Cardinality({d \in Classes : before(d, c)})
    IN  [c \in Classes |-> floored[c] + (IF rank(c) < need THEN 1 ELSE 0)]

\* the row indices of each class, in ascending order
ClassRows(y) ==
    LET idx == [i \in 1..Len(y) |-> i]
    IN  [c \in Classes |-> SelectSeq(idx, LAMBDA i : y[i] = c)]

\* the rows of r whose seeded position is in (lo, hi]
PickRows(r, lo, hi, s) ==
    {r[p] : p \in {q \in 1..Len(r) : /\ Shuffle(q, Len(r), s) > lo
                                      /\ Shuffle(q, Len(r), s) <= hi}}

\* how many rows of each class go to train (n_i) and to test (t_i)
Allocation(counts, n, nTrain, nTest, s) ==
    LET n_i == ApproximateMode(counts, n, nTrain, s)
        left == [c \in Classes |-> counts[c] - n_i[c]]
    IN  [train |-> n_i, test |-> ApproximateMode(left, n - nTrain, nTest, s)]

\* StratifiedShuffleSplit: per class, the class's rows are permuted by the
\* seed; the first n_i go to train and the next t_i to test
StratifiedShuffleSplit(rows, n, nTrain, nTest, s) ==
    CHOOSE r \in
        { [train |-> UNION {PickRows(rows[c], 0, a.train[c], s) : c \in Classes},
           test |-> UNION {PickRows(rows[c], a.train[c], a.train[c] + a.test[c], s)
                           : c \in Classes}]
          : a \in {Allocation([c \in Classes |-> Len(rows[c])], n, nTrain, nTest, s)} }
        : TRUE

\* train_test_split(X, y, test_size=num/den, random_state=s, stratify=y):
\* the row indices of the train and of the test partition
train_test_split(y, num, den, s) ==
    CHOOSE r \in { StratifiedShuffleSplit(rows, Len(y), NTrain(Len(y), num, den),
                                          NTest(Len(y), num, den), s)
                   : rows \in {ClassRows(y)} } : TRUE

\* the majority label of the rows in S (ties to the smaller class)
Majority(y, S) ==
    LET cnt(c) == Cardinality({i \in S : y[i] = c})
    IN  CHOOSE c \in Classes :
            \A d \in Classes : cnt(c) > cnt(d) \/ (cnt(c) = cnt(d) /\ c <= d)

\* RandomForestClassifier(n_estimators, max_depth, random_state=s).fit(X_train,
\* y_train): the fitted forest, summarised by its hyperparameters, its seed and
\* what it learned from the training rows (the label voted for each signal)
Fit(X, y, train, n_estimators, max_depth, s) ==
    [n_estimators |-> n_estimators, max_depth |-> max_depth, random_state |-> s,
     n_train |-> Cardinality(train),
     prior |-> Majority(y, train),
     vote |-> [g \in Classes |-> Majority(y, {i \in train : Signal(X[i]) = g})]]

\* model.predict on one row: the learned vote, except on the noisiest rows,
\* where the forest's seeded trees decide
PredictRow(m, x) ==
    IF Noise(x) < 9 THEN m.vote[Signal(x)]
    ELSE (x + m.random_state + m.n_estimators + m.max_depth) % N_CLASSES

\* model.predict(X_test)
Predict(m, X, test) == [i \in test |-> PredictRow(m, X[i])]

AccuracyCount(y, y_pred) ==
    [num |-> Cardinality({i \in DOMAIN y_pred : y_pred[i] = y[i]}), den |-> 1]

\* accuracy_score(y_test, y_pred): the fraction num/den of matching rows
accuracy_score(y, y_pred) ==
    [num |-> Cardinality({i \in DOMAIN y_pred : y_pred[i] = y[i]}),
     den |-> Cardinality(DOMAIN y_pred)]


(***************************************************************************)
(* The arguments train_model passes.                                       *)
(***************************************************************************)
DataRandomStateNone == <<>>
\* make_classification(..., random_state=42)
DataRandomState == <<RANDOM_STATE>>
\* train_test_split(..., random_state=42)
SplitRandomState == <<RANDOM_STATE>>
\* RandomForestClassifier(..., random_state=42)
ModelRandomState == <<RANDOM_STATE>>

TestSizeQuarter == [num |-> 1, den |-> 4]
\* train_test_split(..., test_size=0.2, ...)
TestSize == [num |-> TestSizeNum, den |-> TestSizeDen]

HyperparamsByGpu(e) ==
    [n_estimators |-> IF e.gpu_available THEN 2 * N_ESTIMATORS ELSE N_ESTIMATORS,
     max_depth |-> MAX_DEPTH]

\* RandomForestClassifier(n_estimators=100, max_depth=10, ...): env_info is in
\* scope but not read
Hyperparams(e) == [n_estimators |-> N_ESTIMATORS, max_depth |-> MAX_DEPTH]

\* os.getenv('MLFLOW_TRACKING_URI', 'http://localhost:5000')
GetTrackingUri(env) == IF env = <<>> THEN DEFAULT_TRACKING_URI ELSE env[1]

\* a metric value as mlflow stores it: a number, kept as the ratio num/den
Whole(k) == [num |-> k, den |-> 1]

(***************************************************************************)
(* Control flow.  The position of the single thread is the statement it    *)
(* executes next.                                                          *)
(***************************************************************************)
Statements ==
    << "detect", "import_tf", "query_tf", "import_torch", "query_torch",
       "detect_return", "set_uri", "set_experiment", "start_run", "log_params",
       "generate", "split", "fit", "evaluate", "log_accuracy",
       "log_train_samples", "log_test_samples", "log_model", "report", "return" >>

Terminal == {"success", "failed"}

\* the position of a statement in the source
Rank(p) == CHOOSE k \in 1..Len(Statements) : Statements[k] = p

\* the statements inside "with mlflow.start_run():"
InRun(p) == p \in {Statements[k] : k \in (Rank("start_run") + 1)..Len(Statements)}

StepAfterModelFirst(p) ==
    CASE p = "evaluate" -> "log_model"
      [] p = "log_model" -> "log_accuracy"
      [] p = "log_test_samples" -> "report"
      [] OTHER -> Statements[Rank(p) + 1]

\* straight-line code: the statement after p in train_model
StepAfter(p) == Statements[Rank(p) + 1]

OnTrackingFailureSwallow(p) == StepAfter(p)

\* a tracking call that raises is not caught in train_model: inside the with
\* block the context manager's __exit__ runs and the exception goes on, outside
\* it the exception leaves train_model at once
OnTrackingFailure(p) == IF InRun(p) THEN "unwind" ELSE "failed"

RunStatusOnExitLeftOpen(failed) == "RUNNING"

\* ActiveRun.__exit__: end_run("FINISHED") without an exception, else
\* end_run("FAILED")
RunStatusOnExit(failed) == IF failed THEN "FAILED" ELSE "FINISHED"

Sites == {"set_experiment", "start_run", "log_params", "log_accuracy",
          "log_train_samples", "log_test_samples", "log_model", "end_run"}

NoTracker == [experiment |-> <<>>, run |-> "none", params |-> <<>>,
              metrics |-> <<>>, model |-> <<>>]

VARIABLES
    host,          \* what the probes find on this machine
    pc,            \* the next statement, or "unwind", "success", "failed"
    call,          \* which invocation of train_model this is
    env_info,      \* <<>> or <<the record of detect_compute_environment>>
    gpuWrites,     \* writes to gpu_available / gpu_type after the initial record
    probed,        \* the libraries whose import was attempted, in order
    exc,           \* <<>> or <<the class of the exception in flight>>
    tracking_uri,  \* <<>> or <<the uri given to mlflow.set_tracking_uri>>
    tracker,       \* the tracking service's record of this invocation's run
    attempts,      \* how often each tracking call site was executed
    failedAt,      \* <<>> or <<the tracking call site that raised>>
    data,          \* <<>> or <<[X, y]>>
    split,         \* <<>> or <<[train, test]>>
    model,         \* <<>> or <<the fitted forest>>
    y_pred,        \* <<>> or <<the predictions on the test rows>>
    accuracy,      \* <<>> or <<accuracy_score's value>>
    returned,      \* <<>> or <<the value train_model returned>>
    trace,         \* the statements executed by this invocation, in order
    history        \* the outcomes of the earlier invocations that returned

vars == << host, pc, call, env_info, gpuWrites, probed, exc, tracking_uri,
           tracker, attempts, failedAt, data, split, model, y_pred, accuracy,
           returned, trace, history >>

detectVars == << env_info, gpuWrites, probed >>
trackVars == << tracking_uri, tracker, attempts, failedAt >>
mlVars == << data, split, model, y_pred, accuracy >>
callVars == << host, call, history, returned >>

Fresh ==
    /\ pc = "detect"
    /\ env_info = <<>>
    /\ gpuWrites = 0
    /\ probed = <<>>
    /\ exc = <<>>
    /\ tracking_uri = <<>>
    /\ tracker = NoTracker
    /\ attempts = [c \in Sites |-> 0]
    /\ failedAt = <<>>
    /\ data = <<>>
    /\ split = <<>>
    /\ model = <<>>
    /\ y_pred = <<>>
    /\ accuracy = <<>>
    /\ returned = <<>>
    /\ trace = <<>>

Init ==
    /\ host \in Hosts
    /\ call = 1
    /\ history = <<>>
    /\ Fresh

Did(p) == trace' = Append(trace, p)

\* an exception no handler of the function matches
Raise(e) ==
    /\ exc' = <<e>>
    /\ pc' = IF InRun(pc) THEN "unwind" ELSE "failed"

(***************************************************************************)
(* detect_compute_environment                                              *)
(***************************************************************************)
\* env_info = {...}
Detect ==
    /\ pc = "detect"
    /\ env_info' = <<InitialEnvInfo(host.system)>>
    /\ pc' = StepAfter(pc)
    /\ Did("detect")
    /\ UNCHANGED << gpuWrites, probed, exc, trackVars, mlVars, callVars >>

\* try: import tensorflow as tf
ImportTensorflow ==
    /\ pc = "import_tf"
    /\ probed' = Append(probed, "tensorflow")
    /\ Did("import_tf")
    /\ LET r == ImportResult(host.tf) IN
         IF r = "ok" THEN pc' = "query_tf" /\ exc' = exc
         ELSE IF ExceptImportError(r) THEN pc' = "import_torch" /\ exc' = exc
         ELSE Raise(r)
    /\ UNCHANGED << env_info, gpuWrites, trackVars, mlVars, callVars >>

\* if tf.config.list_physical_devices('GPU'): ... else: ...
QueryTensorflow ==
    /\ pc = "query_tf"
    /\ Did("query_tf")
    /\ LET q == QueryResult(host.tf) IN
         IF q \in {"gpu", "none"} THEN
            /\ env_info' = IF GpuFound(q) THEN <<MarkGpu(env_info[1])>> ELSE env_info
            /\ gpuWrites' = IF GpuFound(q) THEN gpuWrites + 1 ELSE gpuWrites
            /\ pc' = "detect_return"
            /\ exc' = exc
         ELSE IF ExceptImportError(q) THEN
            /\ pc' = "import_torch"
            /\ UNCHANGED << env_info, gpuWrites, exc >>
         ELSE
            /\ Raise(q)
            /\ UNCHANGED << env_info, gpuWrites >>
    /\ UNCHANGED << probed, trackVars, mlVars, callVars >>

\* except ImportError: try: import torch
ImportTorch ==
    /\ pc = "import_torch"
    /\ probed' = Append(probed, "torch")
    /\ Did("import_torch")
    /\ LET r == ImportResult(host.torch) IN
         IF r = "ok" THEN pc' = "query_torch" /\ exc' = exc
         ELSE IF ExceptImportError(r) THEN pc' = "detect_return" /\ exc' = exc
         ELSE Raise(r)
    /\ UNCHANGED << env_info, gpuWrites, trackVars, mlVars, callVars >>

\* if torch.cuda.is_available(): ... else: ...
QueryTorch ==
    /\ pc = "query_torch"
    /\ Did("query_torch")
    /\ LET q == QueryResult(host.torch) IN
         IF q \in {"gpu", "none"} THEN
            /\ env_info' = IF GpuFound(q) THEN <<MarkGpu(env_info[1])>> ELSE env_info
            /\ gpuWrites' = IF GpuFound(q) THEN gpuWrites + 1 ELSE gpuWrites
            /\ pc' = "detect_return"
            /\ exc' = exc
         ELSE IF ExceptImportError(q) THEN
            /\ pc' = "detect_return"
            /\ UNCHANGED << env_info, gpuWrites, exc >>
         ELSE
            /\ Raise(q)
            /\ UNCHANGED << env_info, gpuWrites >>
    /\ UNCHANGED << probed, trackVars, mlVars, callVars >>

\* return env_info; back in train_model, the three print lines
DetectReturn ==
    /\ pc = "detect_return"
    /\ pc' = StepAfter(pc)
    /\ Did("detect_return")
    /\ UNCHANGED << detectVars, exc, trackVars, mlVars, callVars >>


(***************************************************************************)
(* train_model                                                             *)
(***************************************************************************)
\* one execution of the tracking call at site: it is counted and, when the
\* service does not answer, it raises
Attempt(site, ok) ==
    /\ attempts' = [attempts EXCEPT ![site] = @ + 1]
    /\ IF ok THEN /\ pc' = StepAfter(pc)
                  /\ UNCHANGED << exc, failedAt >>
       ELSE /\ pc' = OnTrackingFailure(pc)
            /\ exc' = <<"TrackingUnreachable">>
            /\ failedAt' = <<site>>

\* mlflow.set_tracking_uri(os.getenv(...)): recorded locally, no request
SetTrackingUri ==
    /\ pc = "set_uri"
    /\ tracking_uri' = <<GetTrackingUri(host.uriEnv)>>
    /\ pc' = StepAfter(pc)
    /\ Did("set_uri")
    /\ UNCHANGED << detectVars, exc, tracker, attempts, failedAt, mlVars, callVars >>

\* mlflow.set_experiment('universal-ml-experiment')
SetExperiment ==
    /\ pc = "set_experiment"
    /\ Did("set_experiment")
    /\ \E ok \in BOOLEAN :
         /\ Attempt("set_experiment", ok)
         /\ tracker' = IF ok THEN [tracker EXCEPT !.experiment = <<EXPERIMENT_NAME>>]
                       ELSE tracker
    /\ UNCHANGED << detectVars, tracking_uri, mlVars, callVars >>

\* with mlflow.start_run():
StartRun ==
    /\ pc = "start_run"
    /\ Did("start_run")
    /\ \E ok \in BOOLEAN :
         /\ Attempt("start_run", ok)
         /\ tracker' = IF ok THEN [tracker EXCEPT !.run = "RUNNING"] ELSE tracker
    /\ UNCHANGED << detectVars, tracking_uri, mlVars, callVars >>

\* mlflow.log_params(env_info)
LogParams ==
    /\ pc = "log_params"
    /\ Did("log_params")
    /\ \E ok \in BOOLEAN :
         /\ Attempt("log_params", ok)
         /\ tracker' = IF ok THEN [tracker EXCEPT !.params =
                                     <<[values |-> env_info[1],
                                        run_open |-> tracker.run = "RUNNING"]>>]
                       ELSE tracker
    /\ UNCHANGED << detectVars, tracking_uri, mlVars, callVars >>

\* X, y = make_classification(n_samples=1000, ..., random_state=42)
Generate ==
    /\ pc = "generate"
    /\ Did("generate")
    /\ \E s \in SeedsOf(DataRandomState) :
         data' = <<make_classification(N_SAMPLES, s)>>
    /\ pc' = StepAfter(pc)
    /\ UNCHANGED << detectVars, exc, trackVars, split, model, y_pred, accuracy,
                    callVars >>

\* X_train, X_test, y_train, y_test = train_test_split(X, y, test_size=0.2,
\*     random_state=42, stratify=y)
Split ==
    /\ pc = "split"
    /\ Did("split")
    /\ \E s \in SeedsOf(SplitRandomState) :
         split' = <<train_test_split(data[1].y, TestSize.num, TestSize.den, s)>>
    /\ pc' = StepAfter(pc)
    /\ UNCHANGED << detectVars, exc, trackVars, data, model, y_pred, accuracy,
                    callVars >>

\* model = RandomForestClassifier(...); model.fit(X_train, y_train)
FitModel ==
    /\ pc = "fit"
    /\ Did("fit")
    /\ \E s \in SeedsOf(ModelRandomState) :
         LET h == Hyperparams(env_info[1]) IN
           model' = <<Fit(data[1].X, data[1].y, split[1].train,
                          h.n_estimators, h.max_depth, s)>>
    /\ pc' = StepAfter(pc)
    /\ UNCHANGED << detectVars, exc, trackVars, data, split, y_pred, accuracy,
                    callVars >>

\* y_pred = model.predict(X_test); accuracy = accuracy_score(y_test, y_pred)
Evaluate ==
    /\ pc = "evaluate"
    /\ Did("evaluate")
    /\ LET yp == Predict(model[1], data[1].X, split[1].test) IN
         /\ y_pred' = <<yp>>
         /\ accuracy' = <<accuracy_score(data[1].y, yp)>>
    /\ pc' = StepAfter(pc)
    /\ UNCHANGED << detectVars, exc, trackVars, data, split, model, callVars >>

\* the metric as the service appends it
Metric(key, value) ==
    [key |-> key, value |-> value, run_open |-> tracker.run = "RUNNING"]

\* the values handed to the three log_metric calls
LoggedAccuracy == accuracy[1]
LoggedTrainCount == Whole(Cardinality(split[1].train))
LoggedTestCount == Whole(Cardinality(split[1].test))

\* mlflow.log_metric('accuracy', accuracy)
LogAccuracy ==
    /\ pc = "log_accuracy"
    /\ Did("log_accuracy")
    /\ \E ok \in BOOLEAN :
         /\ Attempt("log_accuracy", ok)
         /\ tracker' = IF ok THEN [tracker EXCEPT !.metrics =
                                     Append(@, Metric("accuracy", LoggedAccuracy))]
                       ELSE tracker
    /\ UNCHANGED << detectVars, tracking_uri, mlVars, callVars >>

\* mlflow.log_metric('train_samples', len(X_train))
LogTrainSamples ==
    /\ pc = "log_train_samples"
    /\ Did("log_train_samples")
    /\ \E ok \in BOOLEAN :
         /\ Attempt("log_train_samples", ok)
         /\ tracker' = IF ok THEN [tracker EXCEPT !.metrics =
                                     Append(@, Metric("train_samples", LoggedTrainCount))]
                       ELSE tracker
    /\ UNCHANGED << detectVars, tracking_uri, mlVars, callVars >>

\* mlflow.log_metric('test_samples', len(X_test))
LogTestSamples ==
    /\ pc = "log_test_samples"
    /\ Did("log_test_samples")
    /\ \E ok \in BOOLEAN :
         /\ Attempt("log_test_samples", ok)
         /\ tracker' = IF ok THEN [tracker EXCEPT !.metrics =
                                     Append(@, Metric("test_samples", LoggedTestCount))]
                       ELSE tracker
    /\ UNCHANGED << detectVars, tracking_uri, mlVars, callVars >>

\* mlflow.sklearn.log_model(model, "random_forest_model",
\*     registered_model_name="universal-ml-model")
LogModel ==
    /\ pc = "log_model"
    /\ Did("log_model")
    /\ \E ok \in BOOLEAN :
         /\ Attempt("log_model", ok)
         /\ tracker' = IF ok THEN [tracker EXCEPT !.model =
                                     <<[model |-> model,
                                        artifact_path |-> ARTIFACT_PATH,
                                        registered_model_name |-> REGISTERED_MODEL_NAME,
                                        metrics_before |-> Len(tracker.metrics),
                                        run_open |-> tracker.run = "RUNNING"]>>]
                       ELSE tracker
    /\ UNCHANGED << detectVars, tracking_uri, mlVars, callVars >>

\* the closing print lines and classification_report
Report ==
    /\ pc = "report"
    /\ Did("report")
    /\ pc' = StepAfter(pc)
    /\ UNCHANGED << detectVars, exc, trackVars, mlVars, callVars >>

\* the operand of "return accuracy"
ReturnValue == accuracy

\* return accuracy: the with block is left, which ends the run, and the value
\* goes to the caller; an end_run that cannot reach the service raises instead
Return ==
    /\ pc = "return"
    /\ Did("return")
    /\ \E ok \in BOOLEAN :
         /\ attempts' = [attempts EXCEPT !["end_run"] = @ + 1]
         /\ IF ok THEN /\ tracker' = [tracker EXCEPT !.run = RunStatusOnExit(FALSE)]
                       /\ returned' = ReturnValue
                       /\ pc' = "success"
                       /\ UNCHANGED << exc, failedAt >>
            ELSE /\ exc' = <<"TrackingUnreachable">>
                 /\ failedAt' = <<"end_run">>
                 /\ pc' = "failed"
                 /\ UNCHANGED << tracker, returned >>
    /\ UNCHANGED << detectVars, tracking_uri, mlVars, host, call, history >>

\* an exception leaves the with block: __exit__ ends the run as FAILED when
\* the service answers, and the run stays as it was when it does not; the
\* exception then leaves train_model
Unwind ==
    /\ pc = "unwind"
    /\ \E ok \in BOOLEAN :
         /\ attempts' = [attempts EXCEPT !["end_run"] = @ + 1]
         /\ tracker' = IF ok THEN [tracker EXCEPT !.run = RunStatusOnExit(TRUE)]
                       ELSE tracker
    /\ pc' = "failed"
    /\ UNCHANGED << detectVars, exc, tracking_uri, failedAt, mlVars, callVars, trace >>

(***************************************************************************)
(* The caller.                                                             *)
(***************************************************************************)
\* what an invocation that returned leaves behind
Outcome ==
    [env_info |-> env_info[1],
     params |-> tracker.params[1].values,
     data |-> data[1],
     split |-> split[1],
     hyperparams |-> [n_estimators |-> model[1].n_estimators,
                      max_depth |-> model[1].max_depth],
     metrics |-> [k \in 1..Len(tracker.metrics) |->
                    [key |-> tracker.metrics[k].key, value |-> tracker.metrics[k].value]],
     model |-> tracker.model[1].model,
     accuracy |-> returned[1]]

Reset ==
    /\ pc' = "detect"
    /\ env_info' = <<>>
    /\ gpuWrites' = 0
    /\ probed' = <<>>
    /\ exc' = <<>>
    /\ tracking_uri' = <<>>
    /\ tracker' = NoTracker
    /\ attempts' = [c \in Sites |-> 0]
    /\ failedAt' = <<>>
    /\ data' = <<>>
    /\ split' = <<>>
    /\ model' = <<>>
    /\ y_pred' = <<>>
    /\ accuracy' = <<>>
    /\ returned' = <<>>
    /\ trace' = <<>>

\* train_model() is called again in the same process, on the same machine
CallAgain ==
    /\ pc = "success"
    /\ call < MaxCalls
    /\ call' = call + 1
    /\ history' = Append(history, Outcome)
    /\ host' = host
    /\ Reset

\* train_model() is run again where the GPU libraries differ (another
\* installation of the same platform)
CallOnOtherHost ==
    /\ pc = "success"
    /\ call < MaxCalls
    /\ call' = call + 1
    /\ history' = Append(history, Outcome)
    /\ host' \in {h \in Hosts : h.system = host.system /\ h.uriEnv = host.uriEnv}
    /\ Reset

Step ==
    \/ Detect
    \/ ImportTensorflow
    \/ QueryTensorflow
    \/ ImportTorch
    \/ QueryTorch
    \/ DetectReturn
    \/ SetTrackingUri
    \/ SetExperiment
    \/ StartRun
    \/ LogParams
    \/ Generate
    \/ Split
    \/ FitModel
    \/ Evaluate
    \/ LogAccuracy
    \/ LogTrainSamples
    \/ LogTestSamples
    \/ LogModel
    \/ Report
    \/ Return
    \/ Unwind

Next == Step \/ CallAgain

NextHosts == Step \/ CallOnOtherHost

Spec == Init /\ [][Next]_vars

\* executions on machines whose GPU libraries differ
SpecHosts == Init /\ [][NextHosts]_vars


(***************************************************************************)
(* Properties.                                                             *)
(***************************************************************************)
Returned == pc = "success"
DetectDone == env_info # <<>> /\ "detect_return" \in {trace[k] : k \in 1..Len(trace)}
InTrace(p) == p \in {trace[k] : k \in 1..Len(trace)}
ProbeRaised == exc # <<>> /\ exc[1] \in {"ImportError", "OtherError"}

\* the invocations that returned, the present one included
Executions == IF Returned THEN Append(history, Outcome) ELSE history

\* C1: detect_compute_environment never raises: whatever the probes of the
\* two libraries do, no exception of a probe leaves the function, and a
\* record returned after the last consulted probe failed says gpu_available
\* = False.
C1_DetectNeverRaises ==
    /\ ~ProbeRaised
    /\ (DetectDone /\ Len(probed) = 2 /\ host.torch \notin {"gpu", "cpu"})
          => env_info[1].gpu_available = FALSE

\* C2: when both imports raise ImportError, the record has gpu_available =
\* False and gpu_type = None from its construction on, and neither field is
\* written after the initial record.
C2_BothAbsent ==
    (host.tf = "absent" /\ host.torch = "absent" /\ env_info # <<>>)
       => /\ env_info[1].gpu_available = FALSE
          /\ env_info[1].gpu_type = "None"
          /\ gpuWrites = 0

C2_Witness ==
    /\ host.tf = "absent" /\ host.torch = "absent"
    /\ DetectDone /\ probed = <<"tensorflow", "torch">>
    /\ Returned

\* C3: any two invocations that returned have the same dataset, split,
\* hyperparameters, metrics, registered model and accuracy, whatever
\* detect_compute_environment reported in each.
C3_GpuNoInfluence ==
    \A i, j \in 1..Len(Executions) :
        /\ Executions[i].data = Executions[j].data
        /\ Executions[i].split = Executions[j].split
        /\ Executions[i].hyperparams = Executions[j].hyperparams
        /\ Executions[i].metrics = Executions[j].metrics
        /\ Executions[i].model = Executions[j].model
        /\ Executions[i].accuracy = Executions[j].accuracy

C3_Witness ==
    \E i, j \in 1..Len(Executions) :
        /\ Executions[i].env_info.gpu_available
        /\ ~Executions[j].env_info.gpu_available
        /\ Executions[i].params # Executions[j].params

\* the tracking call sites of train_model in source order
SiteOrder == << "set_experiment", "start_run", "log_params", "log_accuracy",
                "log_train_samples", "log_test_samples", "log_model", "end_run" >>
SiteRank(c) == CHOOSE k \in 1..Len(SiteOrder) : SiteOrder[k] = c

\* C4: a tracking call that raises was executed exactly once, nothing in
\* train_model catches it (no later statement runs, no later tracking call
\* other than the run's end is made, nothing is returned), and the
\* invocation has failed or is leaving the with block, from where its only
\* step is to fail; no call site is ever executed twice.
C4_TrackingFailurePropagates ==
    /\ \A c \in Sites : attempts[c] <= 1
    /\ failedAt # <<>> =>
         /\ pc \in {"unwind", "failed"}
         /\ pc = "unwind" => ENABLED Unwind
         /\ exc = <<"TrackingUnreachable">>
         /\ attempts[failedAt[1]] = 1
         /\ returned = <<>>
         /\ trace[Len(trace)] = (IF failedAt[1] = "end_run" THEN "return" ELSE failedAt[1])
         /\ \A c \in Sites \ {"end_run"} :
               SiteRank(c) > SiteRank(failedAt[1]) => attempts[c] = 0

C4_Witness ==
    /\ pc = "failed"
    /\ failedAt = <<"log_accuracy">>
    /\ attempts["start_run"] = 1

MetricKeys == [k \in 1..Len(tracker.metrics) |-> tracker.metrics[k].key]

\* C5: when train_model has returned, the run it opened is closed as
\* FINISHED, the parameters, the three metrics and the model were logged
\* before the closing, and the value returned is the accuracy.
C5_RunReleased ==
    Returned =>
        /\ tracker.run = "FINISHED"
        /\ tracker.params # <<>>
        /\ MetricKeys = <<"accuracy", "train_samples", "test_samples">>
        /\ tracker.model # <<>>
        /\ trace[Len(trace)] = "return"
        /\ attempts["end_run"] = 1
        /\ \A p \in {"start_run", "log_params", "log_accuracy", "log_train_samples",
                     "log_test_samples", "log_model"} : InTrace(p)

C5_Witness == Returned /\ tracker.run = "FINISHED" /\ returned # <<>>

\* C6: once the split is made, the train partition has 800 rows and the test
\* partition 200, they are disjoint and cover the 1000 samples, and the
\* metrics train_samples and test_samples are logged as 800 and 200.
C6_SplitSizes ==
    /\ split # <<>> =>
         /\ Cardinality(split[1].train) = 800
         /\ Cardinality(split[1].test) = 200
         /\ split[1].train \cap split[1].test = {}
         /\ split[1].train \cup split[1].test = 1..1000
    /\ \A k \in 1..Len(tracker.metrics) :
         /\ tracker.metrics[k].key = "train_samples"
               => tracker.metrics[k].value = Whole(800)
         /\ tracker.metrics[k].key = "test_samples"
               => tracker.metrics[k].value = Whole(200)

C6_Witness ==
    /\ split # <<>>
    /\ Len(tracker.metrics) = 3
    /\ tracker.metrics[3].key = "test_samples"

\* C7: any two invocations of one process that returned logged the same
\* parameters, key for key, and logged and returned the same accuracy.
C7_Reproducible ==
    \A i, j \in 1..Len(Executions) :
        /\ Executions[i].params = Executions[j].params
        /\ Executions[i].accuracy = Executions[j].accuracy
        /\ Executions[i].metrics[1] = Executions[j].metrics[1]

C7_Witness ==
    /\ Len(Executions) >= 2
    /\ Executions[1].metrics[1].key = "accuracy"

\* C8: the accuracy is the number of test rows predicted as labelled over
\* the 200 test rows, so it is in [0,1]; the value returned is the accuracy,
\* and so is the value logged as the metric.
C8_AccuracyRange ==
    /\ accuracy # <<>> =>
         /\ accuracy[1].den = 200
         /\ accuracy[1].den = Cardinality(split[1].test)
         /\ accuracy[1].num =
               Cardinality({i \in split[1].test : y_pred[1][i] = data[1].y[i]})
         /\ 0 <= accuracy[1].num /\ accuracy[1].num <= accuracy[1].den
    /\ returned # <<>> =>
         /\ returned = accuracy
         /\ 0 <= returned[1].num /\ returned[1].num <= returned[1].den
         /\ tracker.metrics[1] =
               [key |-> "accuracy", value |-> returned[1], run_open |-> TRUE]

C8_Witness == Returned /\ returned # <<>> /\ returned[1].num > 0

\* the statements of the trace are in source order, each at most once
InOrder == \A k \in 1..(Len(trace) - 1) : Rank(trace[k]) < Rank(trace[k + 1])

C9_Order ==
    /\ InOrder
    /\ Len(tracker.metrics) > 0 => InTrace("fit") /\ InTrace("evaluate")
    /\ \A k \in 1..Len(tracker.metrics) : tracker.metrics[k].run_open
    /\ tracker.params # <<>> => tracker.params[1].run_open
    /\ tracker.model # <<>> =>
         /\ tracker.model[1].run_open
         /\ tracker.model[1].metrics_before = 3
         /\ InTrace("fit") /\ InTrace("evaluate")
    /\ pc = "success" =>
         /\ InTrace("detect")
         /\ \A k \in Rank("detect_return")..Len(Statements) : InTrace(Statements[k])
    /\ pc \in Terminal \/ pc = "unwind" \/ pc \in {Statements[k] : k \in 1..Len(Statements)}

\* where the thread is on its way to the end: a statement by its place in
\* the source, then the unwinding of the with block, then the two ends
Progress(p) ==
    IF p \in Terminal THEN Len(Statements) + 2
    ELSE IF p = "unwind" THEN Len(Statements) + 1
    ELSE Rank(p)

\* C9: the statements of an invocation run in source order, each at most
\* once; metrics and model are logged after fit and evaluation, the model
\* after the three metrics, all of them while the run is open; and every
\* invocation ends in success or in failure: until then a step is always
\* possible, and every step moves the thread forward through the finitely
\* many statements.
C9_StraightLine ==
    /\ [](C9_Order /\ (pc \notin Terminal => ENABLED Step))
    /\ [][pc \notin Terminal => Progress(pc') > Progress(pc)]_vars

C9_Witness == pc = "success" /\ Len(tracker.metrics) = 3 /\ tracker.model # <<>>

\* C10: a returned record is (False, None) or (True, 'CUDA'); tensorflow is
\* tried first and, once imported, its device list alone decides; torch is
\* consulted only when the import of tensorflow failed, and then
\* torch.cuda.is_available() alone decides.
C10_PriorityOrder ==
    /\ Len(probed) > 0 => probed[1] = "tensorflow"
    /\ Len(probed) > 1 => probed = <<"tensorflow", "torch">> /\ ImportResult(host.tf) # "ok"
    /\ DetectDone =>
         /\ \/ env_info[1].gpu_available = FALSE /\ env_info[1].gpu_type = "None"
            \/ env_info[1].gpu_available = TRUE /\ env_info[1].gpu_type = "CUDA"
         /\ ImportResult(host.tf) = "ok"
               => env_info[1].gpu_available = (QueryResult(host.tf) = "gpu")
         /\ (ImportResult(host.tf) # "ok" /\ ImportResult(host.torch) = "ok")
               => env_info[1].gpu_available = (QueryResult(host.torch) = "gpu")

=============================================================================
